---- MODULE Spec2Model ----
(***************************************************************************)
(* Loki acquisition source: the Loki client (Ready, QueryRange/queryRange, *)
(* Tail/tailLogs) and the acquisition driver (OneShotAcquisition,          *)
(* StreamingAcquisition, readOneEntry), with the tomb (gopkg.in/tomb.v2)   *)
(* that owns their goroutines.                                             *)
(*                                                                         *)
(* The driver hands its tomb t to the client (Ready(ctx, t),               *)
(* QueryRange(ctx, t), Tail(ctx, t)), as the client's signatures require.  *)
(* Errors are strings; "nil" is the nil error, "StillAlive" is             *)
(* tomb.ErrStillAlive.                                                     *)
(*                                                                         *)
(* The source's configuration (Configure, ConfigureByDSN), the event       *)
(* readOneEntry builds and the query_range request are a second state      *)
(* machine, SourceSpec, over documents and DSNs that differ from a valid   *)
(* one in a few keys.                                                      *)
(***************************************************************************)
EXTENDS Integers, Sequences, FiniteSets, TLC

\* ------------------------------------------------------------------ bounds
MaxN == 3          \* entries in the queried window
MaxTs == 2         \* distinct timestamps
MaxLimit == 2      \* values of config.Limit
DeliveredCap == 2  \* the per-entry delivery counter saturates here
RecvCap == 2       \* the counter of responses received while dying saturates here
MaxDeviations == 2 \* keys of a document (parameters of a DSN) that differ from the base one
MaxCalls == 2      \* configuration calls on one source

VARIABLES
    mode,         \* l.Config.Mode: "cat" or "tail"
    window,       \* timestamps of the entries Loki holds, in forward order
    limit,        \* lc.config.Limit
    others,       \* other goroutines alive in the tomb
    tReason,      \* tomb: reason ("StillAlive" while alive)
    tAlive,       \* tomb: number of goroutines tracked
    tDead,        \* tomb: dead channel closed
    shutdownAt,   \* where the acquisition was when the owner called t.Kill ("none": not yet)
    readyCtxDone, \* readyCtx: deadline expired
    saw200,       \* a /ready poll was answered 200
    readyErr,     \* Ready: err of its last http.Get
    readyRet,     \* return value of Ready ("none" while it runs)
    dPc,          \* driver (OneShotAcquisition / StreamingAcquisition) position
    dRet,         \* driver return value
    ctxDone,      \* ctx of the acquisition cancelled
    cClosed,      \* response channel closed
    pPc,          \* paginator (queryRange) position
    pStart,       \* `start` parameter of uri
    pUri,         \* the query parameters of uri, `start` included
    pResp,        \* lq, the last decoded response
    pPublished,   \* number of responses sent on c (saturating at 1: any)
    pRet,         \* queryRange return value
    pExit,        \* the return statement queryRange left by
    wPc,          \* streaming worker position
    wRet,         \* streaming worker return value
    rPc,          \* tail reader (tailLogs) position
    rResp,        \* jsonResponse read from the WebSocket: its Streams
    rDropped,     \* jsonResponse: len(DroppedEntries)
    rRet,         \* tailLogs return value
    connState,    \* WebSocket: "none", "open", "closed"
    framePos,     \* window entries already sent by Loki on the WebSocket
    pending,      \* entries of the received response not yet published
    recvAfterKill,\* responses received by the driver while the tomb was dying (saturating)
    consuming,    \* the downstream consumer is receiving on out
    delivered,    \* events received by the consumer, per entry (saturating)
    fault,        \* a query_range request failed (transport, status or body)
    badBody,      \* a query_range answer of status 200 had a body that is not JSON
    lConfig,      \* l.Config
    lClient,      \* l.client
    ret,          \* what the last Configure / ConfigureByDSN returned
    lastCall,     \* the last configuration call and its arguments
    calls,        \* configuration calls made on the source
    read,         \* the last entry given to readOneEntry since the last configuration
    sent,         \* the last event sent on out since the last configuration
    httpReq,      \* the last request sent since the last configuration
    readyCtx      \* the context of the last readiness probe since the last configuration

vars == << mode, window, limit, others, tReason, tAlive, tDead, shutdownAt,
           readyCtxDone, saw200, readyErr, readyRet, dPc, dRet, ctxDone,
           cClosed,
           pPc, pStart, pUri, pResp, pPublished, pRet, pExit,
           wPc, wRet, rPc, rResp, rDropped, rRet, connState, framePos,
           pending, recvAfterKill, consuming, delivered, fault, badBody,
           lConfig, lClient, ret, lastCall, calls, read, sent, httpReq,
           readyCtx >>

tombVars == << tReason, tAlive, tDead >>
readyVars == << readyCtxDone, saw200, readyErr, readyRet >>
pagVars == << pPc, pStart, pUri, pResp, pPublished, pRet, pExit, fault, badBody >>
tailVars == << wPc, wRet, rPc, rResp, rDropped, rRet, connState, framePos >>
srcVars == << lConfig, lClient, ret, lastCall, calls, read, sent, httpReq,
             readyCtx >>
envVars == << mode, window, limit, others, srcVars >>

\* ----------------------------------------------------------------- helpers
\* Flatten with the streams taken last to first
RECURSIVE Flatten_LastFirst(_)
Flatten_LastFirst(streams) ==
    IF streams = << >> THEN << >>
    ELSE Flatten_LastFirst(Tail(streams)) \o Head(streams)

\* for _, stream := range streams { for _, entry := range stream.Entries }:
\* the entries in the order the two loops visit them
RECURSIVE Flatten(_)
Flatten(streams) ==
    IF streams = << >> THEN << >> ELSE Head(streams) \o Flatten(Tail(streams))

NonDecreasing(w) == \A i \in 1..(Len(w) - 1) : w[i] <= w[i + 1]

Windows == { w \in UNION { [1..n -> 1..MaxTs] : n \in 0..MaxN } : NonDecreasing(w) }

Ids == 1..MaxN

\* goroutines of the tomb that are not part of the acquisition: none or one
OtherTasks == {0, 1}

Min(a, b) == IF a < b THEN a ELSE b

\* Loki's query_range, direction=forward: the first `lim` entries of the
\* window whose timestamp is >= start, as one stream (no stream when none).
RECURSIVE Matching(_, _, _)
Matching(w, start, i) ==
    IF i > Len(w) THEN << >>
    ELSE IF w[i] >= start THEN << i >> \o Matching(w, start, i + 1)
    ELSE Matching(w, start, i + 1)

LokiRange(w, start, lim) ==
    LET m == Matching(w, start, 1)
        b == SubSeq(m, 1, Min(lim, Len(m)))
    IN IF b = << >> THEN << >> ELSE << b >>

\* pkg/errors.Wrapf: nil when the wrapped error is nil
Wrapf(err, msg) == IF err = "nil" THEN "nil" ELSE msg

\* ------------------------------------------------------------------- tomb
Dying == tReason # "StillAlive"

\* tomb.kill: the first reason wins, except that a nil reason is replaced
KillReason(cur, reason) ==
    IF cur = "StillAlive" THEN reason
    ELSE IF cur = "nil" THEN reason
    ELSE cur

\* tomb.Go: one more goroutine tracked
TombGo == /\ ~tDead
          /\ tAlive' = tAlive + 1
          /\ UNCHANGED << tReason, tDead >>

\* tomb.run, after the goroutine's function returned err
TombRun(err) ==
    /\ tAlive' = tAlive - 1
    /\ tReason' = IF tAlive - 1 = 0 \/ err # "nil"
                  THEN KillReason(tReason, err) ELSE tReason
    /\ tDead' = (tAlive - 1 = 0)

\* ------------------------------------------------- configuration: values
\* A URL string is held as what url.Parse makes of it; a path or a prefix is
\* the sequence of its characters; a duration is a number of seconds; a map
\* is the set of its <<key, value>> pairs; an error is the sequence of its
\* messages, outermost first, and << >> is the nil error.
\* the query of a URL and the params of a request are maps from names to
\* values (a numeric value is held as the number its text denotes); this is
\* the map with no name
NoParams == [k \in {} |-> ""]

NoUrl == [scheme |-> "", user |-> "", pass |-> "", host |-> "", path |-> << >>,
          query |-> NoParams]
HttpUrl == [NoUrl EXCEPT !.scheme = "http", !.host = "localhost:3100"]
HttpsUrl == [NoUrl EXCEPT !.scheme = "https", !.host = "localhost:3100"]
StuffUrl == [NoUrl EXCEPT !.scheme = "stuff", !.host = "localhost:3100"]
AuthUrl == [HttpUrl EXCEPT !.user = "foo", !.pass = "bar", !.path = << "/" >>]
QueryUrl == [HttpUrl EXCEPT !.query = [limit |-> 7, foo |-> "bar"]]

\* errors.Wrap: nil when the wrapped error is nil
Wrap(err, msg) == IF err = << >> THEN << >> ELSE << msg >> \o err

\* strings.HasSuffix(s, "/")
HasSuffixSlash(s) == Len(s) > 0 /\ s[Len(s)] = "/"

DefaultWaitForReady == 10
lokiLimit == 100
DsnDefaultLimit == 5000

\* LokiConfiguration{}
ZeroConfig ==
    [URL |-> NoUrl, Prefix |-> << >>, Query |-> "", Limit |-> 0,
     DelayFor |-> 0, Since |-> 0, Headers |-> {}, WaitForReady |-> 0,
     Username |-> "", Password |-> "", Mode |-> "", Labels |-> {},
     LogLevel |-> ""]

\* lokiclient.Config{}
ZeroClientConfig ==
    [LokiURL |-> NoUrl, LokiPrefix |-> << >>, Query |-> "", Headers |-> {},
     Username |-> "", Password |-> "", Since |-> 0, Until |-> 0,
     WaitForReady |-> 0, Limit |-> 0]

\* l.client: nil, or the client NewLokiClient built around a Config
NoClient == [set |-> FALSE, config |-> ZeroClientConfig]
NewLokiClient(config) == [set |-> TRUE, config |-> config]

\* ---------------------------------------------- configuration: documents
\* A YAML document, by the value of each key of the schema (the zero value
\* for an absent key) and the name of a key outside the schema ("": none).
\* wait_for_ready is kept as the text of the key ("": absent), which the
\* decoder hands to time.ParseDuration.
TheQuery == "{server=\"demo\"}"
SomeLabels == { << "type", "syslog" >> }
SomeHeaders == { << "X-Scope-OrgID", "1" >> }

BaseDoc ==
    [url |-> HttpUrl, prefix |-> << >>, query |-> TheQuery, limit |-> 0,
     delay_for |-> 0, since |-> 0, headers |-> {}, wait_for_ready |-> "",
     username |-> "", password |-> "", mode |-> "", labels |-> {},
     log_level |-> "", unknown |-> ""]

DocSpace ==
    [url : {NoUrl, HttpUrl, HttpsUrl, StuffUrl, AuthUrl, QueryUrl},
     prefix : { << >>, << "/", "p" >>, << "/", "p", "/" >> },
     query : {"", TheQuery},
     limit : {0, 42, -5},
     delay_for : {0, 1},
     since : {0, 300},
     headers : { {}, SomeHeaders },
     wait_for_ready : {"", "5s", "0s", "-1s"},
     username : {"", "foo"},
     password : {"", "bar"},
     mode : {"", "tail", "cat", "bogus"},
     labels : { {}, SomeLabels },
     log_level : {"", "debug"},
     unknown : {"", "foobar"}]

\* how many keys of a document (or parameters of a DSN) differ from base's
Deviations(x, base) == Cardinality({ f \in DOMAIN x : x[f] # base[f] })

Docs == { doc \in DocSpace : Deviations(doc, BaseDoc) <= MaxDeviations }

\* time.ParseDuration, on the strings of DocSpace and DsnSpace: the
\* duration in seconds (0 with an error)
ParseDuration(s) ==
    CASE s = "0s" -> [d |-> 0, err |-> << >>]
      [] s = "1s" -> [d |-> 1, err |-> << >>]
      [] s = "5s" -> [d |-> 5, err |-> << >>]
      [] s = "-1s" -> [d |-> -1, err |-> << >>]
      [] s = "3h" -> [d |-> 3 * 60 * 60, err |-> << >>]
      [] OTHER -> [d |-> 0, err |-> << "time: invalid duration", s >>]

\* yaml.Unmarshal, which ignores the keys outside the schema
Unmarshal_Lenient(doc) ==
    [cfg |-> [URL |-> doc.url, Prefix |-> doc.prefix, Query |-> doc.query,
              Limit |-> doc.limit, DelayFor |-> doc.delay_for,
              Since |-> doc.since, Headers |-> doc.headers,
              WaitForReady |-> IF doc.wait_for_ready = "" THEN 0
                               ELSE ParseDuration(doc.wait_for_ready).d,
              Username |-> doc.username, Password |-> doc.password,
              Mode |-> doc.mode, Labels |-> doc.labels,
              LogLevel |-> doc.log_level],
     err |-> << >>]

\* yaml.UnmarshalStrict(config, &l.Config): every key of the schema is
\* decoded into its field; a key outside the schema is reported after the
\* decoding, as a type error
UnmarshalStrict(doc) ==
    [cfg |-> [URL |-> doc.url, Prefix |-> doc.prefix, Query |-> doc.query,
              Limit |-> doc.limit, DelayFor |-> doc.delay_for,
              Since |-> doc.since, Headers |-> doc.headers,
              WaitForReady |-> IF doc.wait_for_ready = "" THEN 0
                               ELSE ParseDuration(doc.wait_for_ready).d,
              Username |-> doc.username, Password |-> doc.password,
              Mode |-> doc.mode, Labels |-> doc.labels,
              LogLevel |-> doc.log_level],
     err |-> IF doc.unknown = "" THEN << >>
             ELSE << "yaml: unmarshal errors", "field not found", doc.unknown >>]

\* Configure's defaults without the reset of since in tail mode
WithDefaults_KeepSince(c) ==
    LET c1 == IF c.WaitForReady = 0
              THEN [c EXCEPT !.WaitForReady = DefaultWaitForReady] ELSE c
        c2 == IF c1.Mode = "" THEN [c1 EXCEPT !.Mode = "tail"] ELSE c1
        c3 == IF c2.Prefix = << >> THEN [c2 EXCEPT !.Prefix = << "/" >>] ELSE c2
        c4 == IF ~HasSuffixSlash(c3.Prefix)
              THEN [c3 EXCEPT !.Prefix = @ \o << "/" >>] ELSE c3
        c5 == IF c4.Limit = 0 THEN [c4 EXCEPT !.Limit = lokiLimit] ELSE c4
    IN c5

\* the defaults Configure applies to the decoded document, in its order
WithDefaults(c) ==
    LET c1 == IF c.WaitForReady = 0
              THEN [c EXCEPT !.WaitForReady = DefaultWaitForReady] ELSE c
        c2 == IF c1.Mode = "" THEN [c1 EXCEPT !.Mode = "tail"] ELSE c1
        c3 == IF c2.Prefix = << >> THEN [c2 EXCEPT !.Prefix = << "/" >>] ELSE c2
        c4 == IF ~HasSuffixSlash(c3.Prefix)
              THEN [c3 EXCEPT !.Prefix = @ \o << "/" >>] ELSE c3
        c5 == IF c4.Limit = 0 THEN [c4 EXCEPT !.Limit = lokiLimit] ELSE c4
        c6 == IF c5.Mode = "tail" THEN [c5 EXCEPT !.Since = 0] ELSE c5
    IN c6

\* clientConfig of Configure: URL, headers, limit, query and since only
ConfigureClientConfig(c) ==
    [ZeroClientConfig EXCEPT !.LokiURL = c.URL, !.Headers = c.Headers,
                             !.Limit = c.Limit, !.Query = c.Query,
                             !.Since = c.Since]

\* -------------------------------------------------- configuration: DSNs
\* A DSN, by what url.Parse makes of it (parses: it returned no error) and
\* the value of each query parameter ("" for an absent one).
BaseDsn ==
    [parses |-> TRUE, scheme |-> "loki", user |-> "", pass |-> "",
     host |-> "localhost:3100", query |-> TheQuery, wait_for_ready |-> "",
     delay_for |-> "", since |-> "", limit |-> "", log_level |-> ""]

DsnSpace ==
    [parses : BOOLEAN,
     scheme : {"loki", "http"},
     user : {"", "login"},
     pass : {"", "password"},
     host : {"", "localhost:3100"},
     query : {"", TheQuery},
     wait_for_ready : {"", "5s", "0s", "bad"},
     delay_for : {"", "1s", "bad"},
     since : {"", "3h", "bad"},
     limit : {"", "100", "-5", "x"},
     log_level : {"", "debug", "bad"}]

Dsns == { dsn \in DsnSpace : Deviations(dsn, BaseDsn) <= MaxDeviations }

LabelSets == { {}, SomeLabels }

\* an Atoi that reads every string as a number
Atoi_Lenient(s) ==
    CASE s = "100" -> [n |-> 100, err |-> << >>]
      [] s = "-5" -> [n |-> -5, err |-> << >>]
      [] OTHER -> [n |-> 0, err |-> << >>]

\* strconv.Atoi, on the strings of DsnSpace
Atoi(s) ==
    CASE s = "100" -> [n |-> 100, err |-> << >>]
      [] s = "-5" -> [n |-> -5, err |-> << >>]
      [] OTHER -> [n |-> 0, err |-> << "strconv.Atoi: invalid syntax", s >>]

\* log.ParseLevel, on the strings of DsnSpace
ParseLevel(s) ==
    IF s = "debug" THEN [level |-> "debug", err |-> << >>]
    ELSE [level |-> "", err |-> << "not a valid logrus Level", s >>]

\* clientConfig of ConfigureByDSN: the same, and l.Config's credentials
DsnClientConfig(c) ==
    [ZeroClientConfig EXCEPT !.LokiURL = c.URL, !.Headers = c.Headers,
                             !.Limit = c.Limit, !.Query = c.Query,
                             !.Since = c.Since, !.Username = c.Username,
                             !.Password = c.Password]

\* DsnGate with the host looked at before the scheme
DsnGate_HostFirst(dsn) ==
    IF dsn.host = "" THEN << "Empty loki host" >>
    ELSE IF dsn.scheme # "loki"
    THEN << "invalid DSN %s for loki source, must start with loki://",
            ToString(dsn) >>
    ELSE << >>

\* the checks of u.Scheme and u.Host, in the code's order: the error of
\* the first that fails, with the DSN in the place of %s
DsnGate(dsn) ==
    IF dsn.scheme # "loki"
    THEN << "invalid DSN %s for loki source, must start with loki://",
            ToString(dsn) >>
    ELSE IF dsn.host = "" THEN << "Empty loki host" >>
    ELSE << >>

\* ConfigureByDSN, statement by statement: l.Config as the call leaves it,
\* and the error it returns
ByDSN(dsn, labels) ==
    LET c0 == [ZeroConfig EXCEPT !.Mode = "cat", !.Labels = labels]
        c1 == [c0 EXCEPT !.URL = [NoUrl EXCEPT !.scheme = "http",
                                               !.host = dsn.host],
                         !.Query = IF dsn.query # "" THEN dsn.query ELSE @]
        w == ParseDuration(dsn.wait_for_ready)
        c2 == [c1 EXCEPT !.WaitForReady =
                  IF dsn.wait_for_ready # "" THEN w.d ELSE DefaultWaitForReady]
        d == ParseDuration(dsn.delay_for)
        c3 == IF dsn.delay_for # "" THEN [c2 EXCEPT !.DelayFor = d.d] ELSE c2
        s == ParseDuration(dsn.since)
        c4 == IF dsn.since # "" THEN [c3 EXCEPT !.Since = s.d] ELSE c3
        n == Atoi(dsn.limit)
        c5 == [c4 EXCEPT !.Limit =
                  IF dsn.limit # "" THEN n.n ELSE DsnDefaultLimit]
        lv == ParseLevel(dsn.log_level)
        c6 == IF dsn.log_level # "" THEN [c5 EXCEPT !.LogLevel = lv.level]
              ELSE c5
    IN IF ~dsn.parses
       THEN [cfg |-> c0, err |-> << "can't parse dsn configuration : ",
                                    ToString(dsn), "parse error" >>]
       ELSE IF DsnGate(dsn) # << >>
       THEN [cfg |-> c0, err |-> DsnGate(dsn)]
       ELSE IF dsn.wait_for_ready # "" /\ w.err # << >>
       THEN [cfg |-> c2, err |-> w.err]
       ELSE IF dsn.delay_for # "" /\ d.err # << >>
       THEN [cfg |-> c2, err |-> d.err]
       ELSE IF dsn.since # "" /\ s.err # << >>
       THEN [cfg |-> c4,
             err |-> Wrap(s.err, "can't parse since in DSN configuration")]
       ELSE IF dsn.limit # "" /\ n.err # << >>
       THEN [cfg |-> c4,
             err |-> Wrap(n.err, "can't parse limit in DSN configuration")]
       ELSE IF dsn.log_level # "" /\ lv.err # << >>
       THEN [cfg |-> c5,
             err |-> Wrap(lv.err, "can't parse log_level in DSN configuration")]
       ELSE [cfg |-> c6, err |-> << >>]

\* ------------------------------------------------ the source: its calls
\* l.GetName()
GetName == "loki"

\* a Loki entry
NoEntry == [Line |-> "", Timestamp |-> 0]
SomeEntries == { [Line |-> "line a", Timestamp |-> 1],
                 [Line |-> "line b", Timestamp |-> 2] }

\* types.Event{}
NoEvent ==
    [Line |-> [Raw |-> "", Time |-> 0, Src |-> NoUrl, Labels |-> {},
               Process |-> FALSE, Module |-> ""],
     Process |-> FALSE, Type |-> "", ExpectMode |-> ""]

\* readOneEntry with the labels left out of the event
readOneEntry_NoLabels(cfg, entry, labels) ==
    [Line |-> [Raw |-> entry.Line, Time |-> entry.Timestamp,
               Src |-> cfg.URL, Labels |-> {},
               Process |-> TRUE, Module |-> GetName],
     Process |-> TRUE, Type |-> "LOG", ExpectMode |-> "TIMEMACHINE"]

\* the event readOneEntry sends on out
readOneEntry(cfg, entry, labels) ==
    [Line |-> [Raw |-> entry.Line, Time |-> entry.Timestamp,
               Src |-> cfg.URL, Labels |-> labels,
               Process |-> TRUE, Module |-> GetName],
     Process |-> TRUE, Type |-> "LOG", ExpectMode |-> "TIMEMACHINE"]

\* "Basic " + base64(username + ":" + password)
BasicAuth(username, password) == << "Basic", username, password >>

\* the header QueryRange builds (and hands to nothing)
RequestHeader(config) ==
    [extra |-> config.Headers,
     Authorization |-> IF config.Username # "" \/ config.Password # ""
                       THEN BasicAuth(config.Username, config.Password)
                       ELSE << >>,
     UserAgent |-> "Crowdsec"]

\* filepath.Clean, on paths made of "/" and of names: runs of "/" become
\* one "/" and a trailing "/" goes, unless the path is "/" alone
RECURSIVE Squeeze(_)
Squeeze(p) ==
    IF Len(p) < 2 THEN p
    ELSE IF p[1] = "/" /\ p[2] = "/" THEN Squeeze(Tail(p))
    ELSE << p[1] >> \o Squeeze(Tail(p))

Clean(p) ==
    LET q == Squeeze(p)
    IN IF Len(q) > 1 /\ q[Len(q)] = "/" THEN SubSeq(q, 1, Len(q) - 1) ELSE q

\* filepath.Join: the non-empty elements, separated by "/", then cleaned;
\* the empty path when every element is empty
RECURSIVE Separated(_)
Separated(elems) ==
    IF Len(elems) = 1 THEN elems[1]
    ELSE elems[1] \o << "/" >> \o Separated(Tail(elems))

Join(elems) ==
    LET given == SelectSeq(elems, LAMBDA e : e # << >>)
    IN IF given = << >> THEN << >> ELSE Clean(Separated(given))

\* the path as u.String() writes it: behind a host, a path that does not
\* start with "/" gets one
StringPath(host, path) ==
    IF path # << >> /\ path[1] # "/" /\ host # ""
    THEN << "/" >> \o path ELSE path

\* (variant of SetParams: a parameter already in the URL keeps its value)
SetParams_BaseWins(base, params) ==
    [k \in DOMAIN base \cup DOMAIN params |->
        IF k \in DOMAIN base THEN base[k] ELSE params[k]]

\* queryParams := u.Query(); for k, v := range params { queryParams.Set(k, v) }
SetParams(base, params) ==
    [k \in DOMAIN base \cup DOMAIN params |->
        IF k \in DOMAIN params THEN params[k] ELSE base[k]]

\* getURLFor(endpoint, params): the parts of the URL string it returns
\* (an endpoint is one name of the path)
getURLFor(config, endpoint, params) ==
    [scheme |-> IF endpoint = "loki/api/v1/tail"
                THEN IF config.LokiURL.scheme = "http" THEN "ws" ELSE "wss"
                ELSE config.LokiURL.scheme,
     user |-> config.LokiURL.user, pass |-> config.LokiURL.pass,
     host |-> config.LokiURL.host,
     path |-> StringPath(config.LokiURL.host,
                  Join(<< config.LokiPrefix, config.LokiURL.path,
                          IF endpoint = "" THEN << >> ELSE << endpoint >> >>)),
     params |-> SetParams(config.LokiURL.query, params)]

\* http.Get(uri): the request of Go's default client: no header of the
\* caller, and Basic authentication from the userinfo of the URL, if any
HttpGet(uri) ==
    [uri |-> uri,
     header |-> [extra |-> {},
                 Authorization |-> IF uri.user # "" \/ uri.pass # ""
                                   THEN BasicAuth(uri.user, uri.pass)
                                   ELSE << >>,
                 UserAgent |-> "Go-http-client/1.1"]]

\* dialer.DialContext(ctx, u, requestHeader) of Tail: the handshake request
\* has the configured headers and User-Agent, and the Basic authentication
\* that the dialer's Proxy hook sets when a username or password is
\* configured
WsDial(config, uri) ==
    [uri |-> uri,
     header |-> [extra |-> config.Headers,
                 Authorization |-> IF config.Username # "" \/ config.Password # ""
                                   THEN BasicAuth(config.Username,
                                                  config.Password)
                                   ELSE << >>,
                 UserAgent |-> "Crowdsec"]]

NoRequest == HttpGet(getURLFor(ZeroClientConfig, "", NoParams))

\* context.Background(), and context.WithTimeout(context.Background(), d)
\* made by the acquisition `by`
Background == [timed |-> FALSE, timeout |-> 0, by |-> ""]
WithTimeout(d, by) == [timed |-> TRUE, timeout |-> d, by |-> by]

Acquisitions == {"OneShotAcquisition", "StreamingAcquisition"}

\* no configuration call yet
NoCall == [op |-> "none", doc |-> BaseDoc, dsn |-> BaseDsn, labels |-> {}]

\* a new LokiSource, nothing called on it yet
NewSource ==
    /\ lConfig = ZeroConfig
    /\ lClient = NoClient
    /\ ret = << >>
    /\ lastCall = NoCall
    /\ calls = 0
    /\ read = NoEntry
    /\ sent = NoEvent
    /\ httpReq = NoRequest
    /\ readyCtx = Background

\* ------------------------------------------------------------------- Init
\* the parameters QueryRange gives to getURLFor, for a client of limit lim
\* and a since that reaches back to time 0; time.Now() is later than every
\* entry of the window
CallTime == MaxTs + 1
RangeParams(lim) ==
    [query |-> TheQuery, start |-> 0, end |-> CallTime, limit |-> lim,
     direction |-> "forward"]

\* no acquisition started yet
Idle ==
    /\ tReason = "StillAlive"
    /\ tAlive = others
    /\ tDead = FALSE
    /\ shutdownAt = "none"
    /\ readyCtxDone = FALSE
    /\ saw200 = FALSE
    /\ readyErr = "nil"
    /\ readyRet = "none"
    /\ dPc = "ready"
    /\ dRet = "none"
    /\ ctxDone = FALSE
    /\ cClosed = FALSE
    /\ pPc = "none"
    /\ pStart = 0
    /\ pUri = RangeParams(limit)
    /\ pResp = << >>
    /\ pPublished = 0
    /\ pRet = "none"
    /\ pExit = "none"
    /\ wPc = "none"
    /\ wRet = "none"
    /\ rPc = "none"
    /\ rResp = << >>
    /\ rDropped = 0
    /\ rRet = "none"
    /\ connState = "none"
    /\ framePos = 0
    /\ pending = << >>
    /\ recvAfterKill = 0
    /\ consuming = TRUE
    /\ delivered = [i \in Ids |-> 0]
    /\ fault = FALSE
    /\ badBody = FALSE

Init ==
    /\ mode \in {"cat", "tail"}
    /\ window \in Windows
    /\ limit \in 1..MaxLimit
    /\ others \in OtherTasks
    /\ Idle
    /\ NewSource

\* ------------------------------------------------------- owner, consumer
\* where the acquisition is: probing readiness, in the one-shot receive
\* loop, tailing (reader running), or elsewhere
Phase ==
    IF dPc = "ready" THEN "ready"
    ELSE IF dPc \in {"loop", "publish"} THEN "receive loop"
    ELSE IF rPc \in {"select", "read", "send"} THEN "tailing"
    ELSE "other"

\* The owner of the tomb signals shutdown: t.Kill(reason)
Shutdown(reason) ==
    /\ shutdownAt = "none"
    /\ shutdownAt' = Phase
    /\ tReason' = KillReason(tReason, reason)
    /\ UNCHANGED << tAlive, tDead >>
    /\ UNCHANGED << envVars, readyVars, dPc, dRet, ctxDone, cClosed, pagVars,
                    tailVars, pending, recvAfterKill, consuming, delivered >>

\* The downstream consumer stops receiving from out
ConsumerStop ==
    /\ consuming
    /\ consuming' = FALSE
    /\ UNCHANGED << envVars, tombVars, shutdownAt, readyVars, dPc, dRet,
                    ctxDone, cClosed, pagVars, tailVars, pending,
                    recvAfterKill, delivered >>

\* ------------------------------------------------------ LokiClient.Ready
\* What the caller does with Ready's result: wrap the error and return, or
\* go on: OneShotAcquisition calls QueryRange (t.Go(queryRange)) and enters
\* its receive loop, StreamingAcquisition spawns its worker (t.Go) and
\* returns nil.
AfterReady(err) ==
    /\ readyRet' = err
    /\ IF err # "nil"
       THEN /\ dPc' = "done"
            /\ dRet' = Wrapf(err, "loki is not ready")
            /\ UNCHANGED << tombVars, pPc, wPc >>
       ELSE IF mode = "cat"
       THEN /\ TombGo
            /\ pPc' = "select"
            /\ dPc' = "loop"
            /\ UNCHANGED << dRet, wPc >>
       ELSE /\ TombGo
            /\ wPc' = "dial"
            /\ dPc' = "done"
            /\ dRet' = "nil"
            /\ UNCHANGED pPc

\* the deadline of readyCtx (WaitForReady) expires
ReadyDeadline ==
    /\ dPc = "ready"
    /\ ~readyCtxDone
    /\ readyCtxDone' = TRUE
    /\ UNCHANGED << envVars, tombVars, shutdownAt, saw200, readyErr, readyRet,
                    dPc, dRet, ctxDone, cClosed, pagVars, tailVars, pending,
                    recvAfterKill, consuming, delivered >>

\* case <-ctx.Done(): return ctx.Err()
ReadyCtxDone ==
    /\ dPc = "ready"
    /\ readyCtxDone
    /\ AfterReady("deadline exceeded")
    /\ UNCHANGED << envVars, shutdownAt, readyCtxDone, saw200, readyErr, ctxDone,
                    cClosed,
                    pStart, pUri, pResp, pPublished, pRet, pExit, fault, badBody,
                    wRet, rPc, rResp, rDropped, rRet, connState, framePos,
                    pending, recvAfterKill, consuming, delivered >>

\* case <-t.Dying(): return t.Err()
ReadyDying ==
    /\ dPc = "ready"
    /\ Dying
    /\ AfterReady(tReason)
    /\ UNCHANGED << envVars, shutdownAt, readyCtxDone, saw200, readyErr, ctxDone,
                    cClosed,
                    pStart, pUri, pResp, pPublished, pRet, pExit, fault, badBody,
                    wRet, rPc, rResp, rDropped, rRet, connState, framePos,
                    pending, recvAfterKill, consuming, delivered >>

\* case <-tick.C: resp, err := http.Get(url); answer is "error" (no server:
\* the connection is refused), a non-200 status or 200. On an error or a
\* non-200 status the loop continues and err is not looked at again.
ReadyTick(answer) ==
    /\ dPc = "ready"
    /\ readyErr' = IF answer = "error" THEN "connection refused" ELSE "nil"
    /\ IF answer = "200"
       THEN /\ saw200' = TRUE
            /\ AfterReady("nil")
       ELSE /\ UNCHANGED << saw200, readyRet, tombVars, dPc, dRet, pPc, wPc >>
    /\ UNCHANGED << envVars, shutdownAt, readyCtxDone, ctxDone, cClosed,
                    pStart, pUri, pResp, pPublished, pRet, pExit, fault, badBody,
                    wRet, rPc, rResp, rDropped, rRet, connState, framePos,
                    pending, recvAfterKill, consuming, delivered >>

\* ------------------------------------------------- LokiClient.queryRange
\* the return of queryRange, seen by tomb.run
PaginatorReturn(err, exit) ==
    /\ pPc' = "done"
    /\ pRet' = err
    /\ pExit' = exit
    /\ TombRun(err)

\* select: case <-ctx.Done(): return ctx.Err()
PaginatorCtxDone ==
    /\ pPc = "select"
    /\ ctxDone
    /\ PaginatorReturn("context canceled", "ctx")
    /\ UNCHANGED << envVars, shutdownAt, readyVars, dPc, dRet, ctxDone,
                    cClosed, pStart, pUri, pResp, pPublished, fault, badBody, tailVars,
                    pending, recvAfterKill, consuming, delivered >>

\* select: case <-t.Dying(): return t.Err()
PaginatorDying ==
    /\ pPc = "select"
    /\ Dying
    /\ PaginatorReturn(tReason, "dying")
    /\ UNCHANGED << envVars, shutdownAt, readyVars, dPc, dRet, ctxDone,
                    cClosed, pStart, pUri, pResp, pPublished, fault, badBody, tailVars,
                    pending, recvAfterKill, consuming, delivered >>

\* (variant of PaginatorRequest: the select has no t.Dying() case)
PaginatorRequest_NoDying ==
    /\ pPc = "select"
    /\ ~ctxDone
    /\ pPc' = "inflight"
    /\ UNCHANGED << envVars, tombVars, shutdownAt, readyVars, dPc, dRet,
                    ctxDone, cClosed, pStart, pUri, pResp, pPublished, pRet, pExit,
                    fault, badBody, tailVars, pending, recvAfterKill, consuming,
                    delivered >>

\* select: default (no other case ready): http.Get(uri) is issued
PaginatorRequest ==
    /\ pPc = "select"
    /\ ~ctxDone
    /\ ~Dying
    /\ pPc' = "inflight"
    /\ UNCHANGED << envVars, tombVars, shutdownAt, readyVars, dPc, dRet,
                    ctxDone, cClosed, pStart, pUri, pResp, pPublished, pRet, pExit,
                    fault, badBody, tailVars, pending, recvAfterKill, consuming,
                    delivered >>

\* http.Get returned an error: return errors.Wrapf(err, "error querying range")
PaginatorTransportError ==
    /\ pPc = "inflight"
    /\ fault' = TRUE
    /\ UNCHANGED badBody
    /\ PaginatorReturn(Wrapf("transport", "error querying range"), "transport")
    /\ UNCHANGED << envVars, shutdownAt, readyVars, dPc, dRet, ctxDone,
                    cClosed, pStart, pUri, pResp, pPublished, tailVars,
                    pending, recvAfterKill, consuming, delivered >>

\* resp.StatusCode != 200: err is nil here, and so is what Wrapf returns
PaginatorBadStatus ==
    /\ pPc = "inflight"
    /\ fault' = TRUE
    /\ UNCHANGED badBody
    /\ PaginatorReturn(Wrapf("nil", "bad HTTP response code"), "status")
    /\ UNCHANGED << envVars, shutdownAt, readyVars, dPc, dRet, ctxDone,
                    cClosed, pStart, pUri, pResp, pPublished, tailVars,
                    pending, recvAfterKill, consuming, delivered >>

\* status 200: the body is decoded into lq
PaginatorDecode ==
    /\ pPc = "inflight"
    /\ pResp' = LokiRange(window, pStart, limit)
    /\ pPc' = "send"
    /\ UNCHANGED << envVars, tombVars, shutdownAt, readyVars, dPc, dRet,
                    ctxDone, cClosed, pStart, pUri, pPublished, pRet, pExit, fault, badBody,
                    tailVars, pending, recvAfterKill, consuming, delivered >>

\* status 200 with a body that is not JSON: Decode returns an error that
\* nothing looks at and leaves lq at its zero value, which is sent
PaginatorUndecodable ==
    /\ pPc = "inflight"
    /\ fault' = TRUE
    /\ badBody' = TRUE
    /\ pResp' = << >>
    /\ pPc' = "send"
    /\ UNCHANGED << envVars, tombVars, shutdownAt, readyVars, dPc, dRet,
                    ctxDone, cClosed, pStart, pUri, pPublished, pRet, pExit,
                    tailVars, pending, recvAfterKill, consuming, delivered >>

\* (variant of ShortResponse: a batch of exactly `lim` entries stops too)
ShortResponse_AtMost(lq, lim) == Len(lq) = 0 \/ Len(lq[1]) <= lim

\* the stop condition of the pagination
ShortResponse(lq, lim) == Len(lq) = 0 \/ Len(lq[1]) < lim

\* lastTs: timestamp of the last entry of the first stream, as written into
\* `start` by strconv.Itoa(int(lastTs.UnixNano())) (exact where int is 64 bits)
LastTs(lq) == window[lq[1][Len(lq[1])]]

\* (variant of NextUri: the URL is built anew, with a new `end`)
NextUri_Rebuilt(uri, lastTs) == [uri EXCEPT !.start = lastTs, !.end = lastTs + 1]

\* u, _ := url.Parse(uri); queryParams := u.Query();
\* queryParams.Set("start", ...); u.RawQuery = queryParams.Encode();
\* uri = u.String(): the parameters of the new uri
NextUri(uri, lastTs) == SetParams(uri, [start |-> lastTs])

\* after c <- &lq: close(c) and return nil, or set `start` and loop
PaginatorAdvance ==
    /\ pPc = "sent"
    /\ IF ShortResponse(pResp, limit)
       THEN /\ cClosed' = TRUE
            /\ PaginatorReturn("nil", "short")
            /\ UNCHANGED << pStart, pUri >>
       ELSE /\ pStart' = LastTs(pResp)
            /\ pUri' = NextUri(pUri, LastTs(pResp))
            /\ pPc' = "select"
            /\ UNCHANGED << cClosed, pRet, pExit, tombVars >>
    /\ UNCHANGED << envVars, shutdownAt, readyVars, dPc, dRet, ctxDone,
                    pResp, pPublished, fault, badBody, tailVars,
                    pending, recvAfterKill, consuming, delivered >>

\* -------------------------------------------- LokiSource.OneShotAcquisition
\* case <-t.Dying(): cancel(); return nil
OneShotDying ==
    /\ mode = "cat"
    /\ dPc = "loop"
    /\ Dying
    /\ ctxDone' = TRUE
    /\ dPc' = "done"
    /\ dRet' = "nil"
    /\ UNCHANGED << envVars, tombVars, shutdownAt, readyVars, cClosed,
                    pagVars, tailVars, pending, recvAfterKill, consuming,
                    delivered >>

\* case resp, ok := <-c with !ok: cancel(); return nil
OneShotClosed ==
    /\ mode = "cat"
    /\ dPc = "loop"
    /\ cClosed
    /\ ctxDone' = TRUE
    /\ dPc' = "done"
    /\ dRet' = "nil"
    /\ UNCHANGED << envVars, tombVars, shutdownAt, readyVars, cClosed,
                    pagVars, tailVars, pending, recvAfterKill, consuming,
                    delivered >>

\* (variant of OneShotReceive: the driver takes the next response while it
\* is still publishing the entries of the current one)
OneShotReceive_Buffered ==
    /\ mode = "cat"
    /\ dPc \in {"loop", "publish"}
    /\ pPc = "send"
    /\ ~cClosed
    /\ pPc' = "sent"
    /\ pPublished' = 1
    /\ pending' = pending \o Flatten(pResp)
    /\ dPc' = IF pending \o Flatten(pResp) = << >> THEN "loop" ELSE "publish"
    /\ recvAfterKill' = IF Dying THEN Min(recvAfterKill + 1, RecvCap)
                        ELSE recvAfterKill
    /\ UNCHANGED << envVars, tombVars, shutdownAt, readyVars, dRet,
                    ctxDone, cClosed, pStart, pUri, pResp, pRet, pExit, fault, badBody,
                    tailVars, consuming, delivered >>

\* case resp, ok := <-c with ok: the paginator's c <- &lq meets the receive
OneShotReceive ==
    /\ mode = "cat"
    /\ dPc = "loop"
    /\ pPc = "send"
    /\ ~cClosed
    /\ pPc' = "sent"
    /\ pPublished' = 1
    /\ pending' = Flatten(pResp)
    /\ dPc' = IF Flatten(pResp) = << >> THEN "loop" ELSE "publish"
    /\ recvAfterKill' = IF Dying THEN Min(recvAfterKill + 1, RecvCap)
                        ELSE recvAfterKill
    /\ UNCHANGED << envVars, tombVars, shutdownAt, readyVars, dRet,
                    ctxDone, cClosed, pStart, pUri, pResp, pRet, pExit, fault, badBody,
                    tailVars, consuming, delivered >>

\* ------------------------------------------------- LokiSource.readOneEntry
\* out <- types.Event{...}, received by the consumer; back to the loop
\* after the last entry of the response
Publish ==
    /\ pending # << >>
    /\ consuming
    /\ delivered' = [delivered EXCEPT ![Head(pending)] =
                        Min(@ + 1, DeliveredCap)]
    /\ pending' = Tail(pending)
    /\ IF Tail(pending) = << >>
       THEN IF mode = "cat"
            THEN dPc' = "loop" /\ UNCHANGED wPc
            ELSE wPc' = "loop" /\ UNCHANGED dPc
       ELSE UNCHANGED << dPc, wPc >>
    /\ UNCHANGED << envVars, tombVars, shutdownAt, readyVars, dRet,
                    ctxDone, cClosed, pagVars, wRet, rPc, rResp, rDropped, rRet,
                    connState, framePos, recvAfterKill, consuming >>

\* ------------------------------------------ LokiSource.StreamingAcquisition
\* the return of the worker (its deferred cancel() runs), seen by tomb.run
WorkerReturn(err) ==
    /\ wPc' = "done"
    /\ wRet' = err
    /\ ctxDone' = TRUE
    /\ TombRun(err)

\* (variant of WorkerDialError: the worker swallows the dial error)
WorkerDialError_Swallowed ==
    /\ wPc = "dial"
    /\ WorkerReturn("nil")
    /\ UNCHANGED << envVars, shutdownAt, readyVars, dPc, dRet, cClosed,
                    pagVars, rPc, rResp, rDropped, rRet, connState, framePos,
                    pending, recvAfterKill, consuming, delivered >>

\* l.client.Tail: the dial fails; the worker returns the wrapped error
WorkerDialError ==
    /\ wPc = "dial"
    /\ WorkerReturn(Wrapf("dial error", "could not start loki tail"))
    /\ UNCHANGED << envVars, shutdownAt, readyVars, dPc, dRet, cClosed,
                    pagVars, rPc, rResp, rDropped, rRet, connState, framePos,
                    pending, recvAfterKill, consuming, delivered >>

\* l.client.Tail: the dial succeeds, t.Go(tailLogs), the channel is returned
WorkerDial ==
    /\ wPc = "dial"
    /\ connState' = "open"
    /\ TombGo
    /\ rPc' = "select"
    /\ wPc' = "loop"
    /\ UNCHANGED << envVars, shutdownAt, readyVars, dPc, dRet, ctxDone,
                    cClosed, pagVars, wRet, rResp, rDropped, rRet, framePos,
                    pending, recvAfterKill, consuming, delivered >>

\* case resp := <-respChan: the reader's c <- jsonResponse meets the receive
WorkerReceive ==
    /\ wPc = "loop"
    /\ rPc = "send"
    /\ ~cClosed
    /\ rPc' = "select"
    /\ pending' = Flatten(rResp)
    /\ wPc' = IF Flatten(rResp) = << >> THEN "loop" ELSE "publish"
    /\ recvAfterKill' = IF Dying THEN Min(recvAfterKill + 1, RecvCap)
                        ELSE recvAfterKill
    /\ UNCHANGED << envVars, tombVars, shutdownAt, readyVars, dPc, dRet,
                    ctxDone, cClosed, pagVars, wRet, rResp, rDropped, rRet, connState,
                    framePos, consuming, delivered >>

\* case resp := <-respChan on the closed channel: resp == nil, continue
WorkerReceiveNil ==
    /\ wPc = "loop"
    /\ cClosed
    /\ UNCHANGED vars

\* case <-t.Dying(): return nil
WorkerDying ==
    /\ wPc = "loop"
    /\ Dying
    /\ WorkerReturn("nil")
    /\ UNCHANGED << envVars, shutdownAt, readyVars, dPc, dRet, cClosed,
                    pagVars, rPc, rResp, rDropped, rRet, connState, framePos,
                    pending, recvAfterKill, consuming, delivered >>

\* ---------------------------------------------------- LokiClient.tailLogs
\* ReaderReturn that leaves the WebSocket open
ReaderReturn_LeavesOpen(err) ==
    /\ rPc' = "done"
    /\ rRet' = err
    /\ connState' = connState
    /\ TombRun(err)

\* the return of tailLogs (the deferred conn.Close() of Tail's goroutine
\* runs), seen by tomb.run
ReaderReturn(err) ==
    /\ rPc' = "done"
    /\ rRet' = err
    /\ connState' = "closed"
    /\ TombRun(err)

\* what conn.Close() returns
CloseResults == {"nil", "close error"}

\* case <-t.Dying(): return conn.Close()
ReaderDying(closeErr) ==
    /\ rPc = "select"
    /\ Dying
    /\ ReaderReturn(closeErr)
    /\ UNCHANGED << envVars, shutdownAt, readyVars, dPc, dRet, ctxDone,
                    cClosed, pagVars, wPc, wRet, rResp, rDropped, framePos,
                    pending, recvAfterKill, consuming, delivered >>

\* case <-ctx.Done(): return conn.Close()
ReaderCtxDone(closeErr) ==
    /\ rPc = "select"
    /\ ctxDone
    /\ ReaderReturn(closeErr)
    /\ UNCHANGED << envVars, shutdownAt, readyVars, dPc, dRet, ctxDone,
                    cClosed, pagVars, wPc, wRet, rResp, rDropped, framePos,
                    pending, recvAfterKill, consuming, delivered >>

\* case <-tick.C: jsonResponse := &LokiResponse{}; conn.ReadJSON is entered
\* and blocks until a frame or an error
ReaderTick ==
    /\ rPc = "select"
    /\ rPc' = "read"
    /\ rResp' = << >>
    /\ rDropped' = 0
    /\ UNCHANGED << envVars, tombVars, shutdownAt, readyVars, dPc, dRet,
                    ctxDone, cClosed, pagVars, wPc, wRet, rRet,
                    connState, framePos, pending, recvAfterKill, consuming,
                    delivered >>

\* the Streams of the frame Loki sends next: the k entries after pos, in
\* one stream, or (streams are per label set, not per time) the first of
\* them in a stream of its own, before or after the stream of the others
TailFrames(pos, k) ==
    LET all == [i \in 1..k |-> pos + i]
    IN IF k = 0 THEN { << >> }
       ELSE IF k = 1 THEN { << all >> }
       ELSE { << all >>,
              << SubSeq(all, 1, 1), SubSeq(all, 2, k) >>,
              << SubSeq(all, 2, k), SubSeq(all, 1, 1) >> }

\* conn.ReadJSON returns a frame: Loki dropped the next d entries and sends
\* the k after them
ReaderFrame(k, d, streams) ==
    /\ rPc = "read"
    /\ framePos + d + k <= Len(window)
    /\ streams \in TailFrames(framePos + d, k)
    /\ rResp' = streams
    /\ rDropped' = d
    /\ framePos' = framePos + d + k
    /\ rPc' = "send"
    /\ UNCHANGED << envVars, tombVars, shutdownAt, readyVars, dPc, dRet,
                    ctxDone, cClosed, pagVars, wPc, wRet, rRet, connState,
                    pending, recvAfterKill, consuming, delivered >>

\* (variant of ReaderReadError: after close(c) the loop goes on)
ReaderReadError_Continues ==
    /\ rPc = "read"
    /\ cClosed' = TRUE
    /\ rPc' = "select"
    /\ UNCHANGED << envVars, tombVars, shutdownAt, readyVars, dPc, dRet,
                    ctxDone, pagVars, wPc, wRet, rResp, rDropped, rRet,
                    connState, framePos, pending, recvAfterKill, consuming,
                    delivered >>

\* ReaderReadError without close(c)
ReaderReadError_NoClose ==
    /\ rPc = "read"
    /\ ReaderReturn("read error")
    /\ UNCHANGED << envVars, shutdownAt, readyVars, dPc, dRet, ctxDone,
                    cClosed, pagVars, wPc, wRet, rResp, rDropped, framePos,
                    pending, recvAfterKill, consuming, delivered >>

\* conn.ReadJSON returns an error: close(c); return err
ReaderReadError ==
    /\ rPc = "read"
    /\ cClosed' = TRUE
    /\ ReaderReturn("read error")
    /\ UNCHANGED << envVars, shutdownAt, readyVars, dPc, dRet, ctxDone,
                    pagVars, wPc, wRet, rResp, rDropped, framePos,
                    pending, recvAfterKill, consuming, delivered >>

\* ------------------------------------------------------------------- Next
ReadyAnswers == {"error", "503", "200"}
KillReasons == {"nil", "shutdown error"}
FrameSizes == 0..2
DroppedCounts == 0..1

Next ==
    \/ \E reason \in KillReasons : Shutdown(reason)
    \/ ConsumerStop
    \/ ReadyDeadline
    \/ ReadyCtxDone
    \/ ReadyDying
    \/ \E answer \in ReadyAnswers : ReadyTick(answer)
    \/ PaginatorCtxDone
    \/ PaginatorDying
    \/ PaginatorRequest
    \/ PaginatorTransportError
    \/ PaginatorBadStatus
    \/ PaginatorDecode
    \/ PaginatorUndecodable
    \/ PaginatorAdvance
    \/ OneShotDying
    \/ OneShotClosed
    \/ OneShotReceive
    \/ Publish
    \/ WorkerDialError
    \/ WorkerDial
    \/ WorkerReceive
    \/ WorkerReceiveNil
    \/ WorkerDying
    \/ \E closeErr \in CloseResults : ReaderDying(closeErr)
    \/ \E closeErr \in CloseResults : ReaderCtxDone(closeErr)
    \/ ReaderTick
    \/ \E k \in FrameSizes, d \in DroppedCounts :
           \E streams \in TailFrames(framePos + d, k) : ReaderFrame(k, d, streams)
    \/ ReaderReadError

Spec == Init /\ [][Next]_vars

\* ----------------------------------------------------------------- FairSpec
\* A runnable goroutine runs; an HTTP request or a dial ends (with an answer
\* or an error); the deadline timer fires; a select with several ready cases
\* picks each of them eventually. Nothing is assumed of the owner (Shutdown),
\* of the consumer stopping, of the answers to /ready, nor of what Loki
\* sends on the WebSocket.
PaginatorAnswer ==
    \/ PaginatorTransportError \/ PaginatorBadStatus \/ PaginatorDecode
    \/ PaginatorUndecodable

DialReturns == WorkerDial \/ WorkerDialError

Fairness ==
    /\ WF_vars(ReadyDeadline)
    /\ SF_vars(ReadyCtxDone)
    /\ SF_vars(ReadyDying)
    /\ WF_vars(PaginatorCtxDone)
    /\ WF_vars(PaginatorDying)
    /\ WF_vars(PaginatorRequest)
    /\ WF_vars(PaginatorAnswer)
    /\ WF_vars(PaginatorAdvance)
    /\ SF_vars(OneShotDying)
    /\ SF_vars(OneShotClosed)
    /\ WF_vars(OneShotReceive)
    /\ WF_vars(Publish)
    /\ WF_vars(DialReturns)
    /\ WF_vars(WorkerReceive)
    /\ SF_vars(WorkerDying)
    /\ SF_vars(\E closeErr \in CloseResults : ReaderDying(closeErr))
    /\ SF_vars(\E closeErr \in CloseResults : ReaderCtxDone(closeErr))
    /\ WF_vars(ReaderTick)

FairSpec == Spec /\ Fairness

\* The streaming worker alone: a publication the consumer is receiving
\* completes, and a worker whose select has the dying case ready takes it.
WorkerFairness ==
    /\ WF_vars(Publish)
    /\ WF_vars(WorkerDying)

WorkerFairSpec == Spec /\ WorkerFairness

\* everything of the acquisition, which the calls on the source leave alone
runVars == << mode, window, limit, others, tombVars, shutdownAt, readyVars,
              dPc, dRet, ctxDone, cClosed, pagVars, tailVars, pending,
              recvAfterKill, consuming, delivered >>

\* l.Configure(config, logger)
Configure(doc) ==
    LET u == UnmarshalStrict(doc)
        resolved == WithDefaults(u.cfg)
    IN /\ calls < MaxCalls
       /\ calls' = calls + 1
       /\ lastCall' = [NoCall EXCEPT !.op = "Configure", !.doc = doc]
       /\ IF u.err # << >>
          THEN /\ lConfig' = u.cfg
               /\ ret' = Wrap(u.err, "Cannot parse LokiAcquisition configuration")
               /\ UNCHANGED lClient
          ELSE IF u.cfg.Query = ""
          THEN /\ lConfig' = u.cfg
               /\ ret' = << "Loki query is mandatory" >>
               /\ UNCHANGED lClient
          ELSE /\ lConfig' = resolved
               /\ lClient' = NewLokiClient(ConfigureClientConfig(resolved))
               /\ ret' = << >>
       /\ read' = NoEntry /\ sent' = NoEvent /\ httpReq' = NoRequest
       /\ readyCtx' = Background
       /\ UNCHANGED runVars

\* l.ConfigureByDSN(dsn, labels, logger)
ConfigureByDSN(dsn, labels) ==
    LET r == ByDSN(dsn, labels)
    IN /\ calls < MaxCalls
       /\ calls' = calls + 1
       /\ lastCall' = [NoCall EXCEPT !.op = "ConfigureByDSN", !.dsn = dsn,
                                     !.labels = labels]
       /\ lConfig' = r.cfg
       /\ ret' = r.err
       /\ lClient' = IF r.err = << >> THEN NewLokiClient(DsnClientConfig(r.cfg))
                     ELSE lClient
       /\ read' = NoEntry /\ sent' = NoEvent /\ httpReq' = NoRequest
       /\ readyCtx' = Background
       /\ UNCHANGED runVars

\* l.readOneEntry(entry, l.Config.Labels, out), as both acquisitions call
\* it, on a source whose last configuration succeeded
ReadOneEntry(entry) ==
    /\ lClient.set /\ ret = << >>
    /\ read' = entry
    /\ sent' = readOneEntry(lConfig, entry, lConfig.Labels)
    /\ UNCHANGED << lConfig, lClient, ret, lastCall, calls, httpReq, readyCtx,
                    runVars >>

\* l.client.QueryRange: the URL it builds and the request queryRange sends
SendQueryRange ==
    /\ lClient.set /\ ret = << >>
    /\ httpReq' = HttpGet(getURLFor(lClient.config, "loki/api/v1/query_range",
                     [query |-> lClient.config.Query,
                      start |-> 0 - lClient.config.Since,
                      end |-> 0,
                      limit |-> lClient.config.Limit,
                      direction |-> "forward"]))
    /\ UNCHANGED << lConfig, lClient, ret, lastCall, calls, read, sent,
                    readyCtx, runVars >>

\* l.client.Tail: the URL it builds and the handshake request it sends
SendTail ==
    /\ lClient.set /\ ret = << >>
    /\ httpReq' = WsDial(lClient.config,
                     getURLFor(lClient.config, "loki/api/v1/tail",
                        [limit |-> lClient.config.Limit,
                         start |-> 0 - lClient.config.Since,
                         query |-> lClient.config.Query]))
    /\ UNCHANGED << lConfig, lClient, ret, lastCall, calls, read, sent,
                    readyCtx, runVars >>

\* the readiness probe with a context that has no deadline
StartReady_NoDeadline(acq) ==
    /\ lClient.set /\ ret = << >>
    /\ readyCtx' = [Background EXCEPT !.by = acq]
    /\ httpReq' = HttpGet(getURLFor(lClient.config, "ready", NoParams))
    /\ UNCHANGED << lConfig, lClient, ret, lastCall, calls, read, sent,
                    runVars >>

\* the first statements of OneShotAcquisition and of StreamingAcquisition,
\* which are the same: readyCtx is made with l.Config.WaitForReady as its
\* timeout and l.client.Ready(readyCtx) sends its first request
StartReady(acq) ==
    /\ lClient.set /\ ret = << >>
    /\ readyCtx' = WithTimeout(lConfig.WaitForReady, acq)
    /\ httpReq' = HttpGet(getURLFor(lClient.config, "ready", NoParams))
    /\ UNCHANGED << lConfig, lClient, ret, lastCall, calls, read, sent,
                    runVars >>

SourceInit ==
    /\ mode = "cat" /\ window = << >> /\ limit = 1 /\ others = 0
    /\ Idle
    /\ NewSource

SourceNext ==
    \/ \E doc \in Docs : Configure(doc)
    \/ \E dsn \in Dsns, labels \in LabelSets : ConfigureByDSN(dsn, labels)
    \/ \E entry \in SomeEntries : ReadOneEntry(entry)
    \/ SendQueryRange
    \/ SendTail
    \/ \E acq \in Acquisitions : StartReady(acq)

SourceSpec == SourceInit /\ [][SourceNext]_vars

\* ================================================================= claims
\* The last response sent on c stops the pagination / its last timestamp
LastWasShort == Len(pResp) = 0 \/ Len(pResp[1]) < limit
LastWasFull == Len(pResp) > 0 /\ Len(pResp[1]) >= limit
LastEntryTs == window[pResp[1][Len(pResp[1])]]

\* C1 (as stated): after a response was published, a short one (no stream,
\* or a first stream of fewer than `limit` entries) makes the paginator close
\* the channel and finish with no error, with no further request; a full one
\* makes it issue one further request, whose start is the timestamp of the
\* last entry of the first stream: from its select the only way on is that
\* request.
C1_AlwaysFurtherRequest ==
    [][ /\ (pPc = "sent" /\ pPc' # "sent" /\ LastWasShort)
            => (cClosed' /\ pPc' = "done" /\ pRet' = "nil")
        /\ (pPc = "sent" /\ pPc' # "sent" /\ LastWasFull)
            => (~cClosed' /\ pPc' = "select")
        /\ (pPc = "select" /\ pPublished = 1)
            => (pPc' = "select" \/ pPc' = "inflight")
        /\ (pPc # "inflight" /\ pPc' = "inflight" /\ pPublished = 1)
            => (LastWasFull /\ pStart = LastEntryTs /\ ~cClosed)
        /\ (mode = "cat" /\ cClosed) => pPc' = "done"
      ]_vars

\* C1 (amended): the same, except that the further request after a full
\* response is issued only if neither the context is cancelled nor the tomb
\* dying when the loop is back at its select; otherwise the paginator
\* returns there, with no request and without closing the channel.
C1_PaginationRule ==
    [][ /\ (pPc = "sent" /\ pPc' # "sent" /\ LastWasShort)
            => (cClosed' /\ pPc' = "done" /\ pRet' = "nil")
        /\ (pPc = "sent" /\ pPc' # "sent" /\ LastWasFull)
            => (~cClosed' /\ pPc' = "select")
        /\ (pPc = "select" /\ pPublished = 1)
            => \/ pPc' = "select"
               \/ pPc' = "inflight" /\ ~ctxDone /\ ~Dying
               \/ pPc' = "done" /\ (ctxDone \/ Dying) /\ ~cClosed' /\ pRet' # "none"
        /\ (pPc # "inflight" /\ pPc' = "inflight" /\ pPublished = 1)
            => (LastWasFull /\ pStart = LastEntryTs /\ ~cClosed)
        /\ (mode = "cat" /\ cClosed) => pPc' = "done"
      ]_vars

\* C1 witness: a further request is in flight after a full response, with
\* the start taken from that response
C1_Witness ==
    pPc = "inflight" /\ pPublished = 1 /\ pStart = 2 /\ limit = 2

\* Entries of the window; the run had no shutdown, no failed request and a
\* consumer that kept receiving
Entries == 1..Len(window)
shutdownFired == shutdownAt # "none"
QuietRun == ~shutdownFired /\ ~fault /\ consuming

\* C2: with no shutdown and no transport error, against a Loki answering
\* each request with the first `limit` entries of timestamp >= start,
\* OneShotAcquisition publishes exactly one event per entry of the window
\* (none duplicated at any time, none missing once it has returned) and
\* returns nil, for every window size and every limit.
C2_ExactlyOncePerEntry ==
    (mode = "cat" /\ QuietRun) =>
        /\ \A i \in Entries : delivered[i] <= 1
        /\ (dPc = "done" /\ saw200) =>
               (dRet = "nil" /\ \A i \in Entries : delivered[i] = 1)

\* C3: for every finite window and every limit, with no shutdown and no
\* error, the paginator eventually closes the response channel and
\* OneShotAcquisition returns.
C3_WindowDrained ==
    (mode = "cat") =>
        <>(\/ shutdownFired \/ fault \/ ~consuming
           \/ (dPc = "done" /\ (cClosed \/ readyRet # "nil")))

\* C4: a query_range request that fails in transport or is answered with a
\* non-200 status makes the paginator return a non-nil error, which becomes
\* the error of the tomb (when the owner has not killed it with another
\* reason), and the response channel stays open.
C4_ErrorSurfaces ==
    (pPc = "done" /\ pExit \in {"transport", "status"}) =>
        /\ pRet # "nil"
        /\ ~cClosed
        /\ (~shutdownFired => tReason = pRet)

\* C5: once the paginator has stopped on an error path, OneShotAcquisition
\* eventually returns (given a consumer that keeps receiving), whether or
\* not other goroutines are alive in the tomb.
C5_DriverReturnsAfterError ==
    [](pExit \in {"transport", "status"} => <>(dPc = "done" \/ ~consuming))

\* C6: once the tail reader is running and the tomb is killed with nil, with
\* a consumer that keeps receiving, the worker and the reader both
\* terminate and the tomb holds no error (a read error of the WebSocket
\* aside), whatever Loki sends or does not send.
C6_StreamingStops ==
    []((mode = "tail" /\ shutdownAt = "tailing" /\ tReason = "nil")
        => <>(\/ ~consuming
              \/ rRet = "read error"
              \/ (wPc = "done" /\ rPc = "done" /\ tReason = "nil")))

\* C7 (as stated): when the shutdown signal fires while OneShotAcquisition
\* is in its receive loop, it cancels the pagination context and returns nil,
\* and publishes no event of a batch received after the signal.
C7_NoBatchAfterShutdown ==
    [][ (mode = "cat" /\ shutdownAt = "receive loop") =>
          /\ (dPc = "loop" /\ dPc' = "done") => (dRet' = "nil" /\ ctxDone')
          /\ (dPc = "done") => (delivered' = delivered)
          /\ (recvAfterKill > 0) => (delivered' = delivered)
      ]_vars

\* C7 (amended): it cancels the pagination context and returns nil, and
\* publishes nothing once it has returned; after the signal it may still
\* receive, and publish the events of, one more batch (the one of the
\* request the paginator had in hand when the signal fired), never two.
C7_AtMostOneBatchAfterShutdown ==
    [][ (mode = "cat" /\ shutdownAt = "receive loop") =>
          /\ (dPc = "loop" /\ dPc' = "done") => (dRet' = "nil" /\ ctxDone')
          /\ (dPc = "done") => (delivered' = delivered)
          /\ recvAfterKill' <= 1
      ]_vars

\* C7 witness: the one-shot call returned nil on shutdown after it had
\* received (and published) a batch while the tomb was already dying
C7_Witness ==
    /\ mode = "cat" /\ shutdownAt = "receive loop"
    /\ dPc = "done" /\ dRet = "nil" /\ ctxDone
    /\ recvAfterKill = 1
    /\ \E i \in Entries : delivered[i] > 0

\* C8: after OneShotAcquisition has returned on shutdown or cancellation,
\* the paginator it spawned eventually returns too.
C8_PaginatorReturns ==
    []((mode = "cat" /\ dPc = "done" /\ pPc # "none") => <>(pPc = "done"))

\* C9: Ready returns nil only after a poll answered 200; when the deadline
\* expires or the tomb is killed first (with any reason, nil included) it
\* returns a non-nil error.
C9_ReadyOnly200 ==
    readyRet # "none" => (readyRet = "nil" <=> saw200)

\* C10: no query_range request, no WebSocket dial and no worker unless the
\* readiness probe has observed a 200; a probe ended without a 200 makes the
\* call return "loki is not ready", with no event published.
C10_NothingBeforeReady ==
    /\ (pPc # "none" \/ wPc # "none" \/ connState # "none") => saw200
    /\ (readyRet # "none" /\ ~saw200) =>
           /\ dPc = "done" /\ dRet = "loki is not ready"
           /\ \A i \in Ids : delivered[i] = 0

\* C11: when the last /ready poll of a streaming acquisition met no server
\* (connection refused), no poll was answered 200 and the owner did not
\* shut down, the error StreamingAcquisition returns wraps that transport
\* error ("connect: connection refused").
C11_ReadyErrorCarriesTransportError ==
    (/\ mode = "tail" /\ dPc = "done" /\ shutdownAt = "none"
     /\ ~saw200 /\ readyErr = "connection refused")
        => (dRet = "loki is not ready" /\ readyRet = "connection refused")

C13_ReaderClosesWebSocket ==
    rPc = "done" =>
        /\ connState = "closed"
        /\ rRet # "read error" =>
               /\ rRet \in {"nil", "close error"}
               /\ ~cClosed
               /\ tReason # "StillAlive" \/ ctxDone

\* C13 witness: the reader ended on shutdown with the channel left open
C13_Witness ==
    /\ mode = "tail" /\ shutdownAt = "tailing"
    /\ rPc = "done" /\ rRet = "nil"
    /\ connState = "closed" /\ ~cClosed

\* the entries of a response, streams in response order, each stream's
\* entries in order
RECURSIVE EntriesOf(_)
EntriesOf(streams) ==
    IF Len(streams) = 0 THEN << >>
    ELSE EntriesOf(SubSeq(streams, 1, Len(streams) - 1)) \o streams[Len(streams)]

\* one step of the acquisition, as C14 allows it: a received response fills
\* the entries to publish with its entries in order; while entries are left,
\* the only change is the publication of the first of them; with none left,
\* nothing is published
EventsFollowResponseStep ==
    /\ (mode = "tail" /\ rPc = "send" /\ rPc' = "select")
          => pending' = EntriesOf(rResp)
    /\ (mode = "cat" /\ pPc = "send" /\ pPc' = "sent")
          => pending' = EntriesOf(pResp)
    /\ pending # << >> =>
          \/ pending' = pending /\ delivered' = delivered
          \/ /\ pending' = Tail(pending)
             /\ delivered' = [delivered EXCEPT ![Head(pending)] =
                                 IF @ < DeliveredCap THEN @ + 1 ELSE @]
    /\ pending = << >> => delivered' = delivered

\* C14: the events published for a received response are exactly its
\* entries, one event per entry, streams in response order and entries in
\* stream order, all published before the next response is received, in
\* one-shot and in tail mode; a nil tail response (closed channel) yields
\* no event; a response reporting dropped entries is published like any
\* other.
C14_EventsFollowResponse ==
    /\ [](wPc = "loop" => pending = << >>)
    /\ [][EventsFollowResponseStep]_vars

\* C14 witness: a tail response of two streams, the later entry's stream
\* first, that reports a dropped entry has been received and published
C14_Witness ==
    /\ mode = "tail" /\ rPc = "select" /\ wPc = "loop"
    /\ rDropped = 1 /\ Len(rResp) = 2
    /\ rResp[1][1] > rResp[2][1]
    /\ delivered[rResp[1][1]] = 1 /\ delivered[rResp[2][1]] = 1

\* the error err carries the message msg, at any depth of its wrapping
Mentions(err, msg) == \E i \in 1..Len(err) : err[i] = msg

\* the last call on the source was a configuration call, which succeeded
Configured ==
    lastCall.op \in {"Configure", "ConfigureByDSN"} /\ ret = << >>

\* C15: the event sent for an entry has the entry's line and timestamp, the
\* URL and the labels of the configuration (those of the document, or the
\* DSN's host and the labels given with the DSN), module "loki",
\* Process = true, Type = LOG and ExpectMode = TIMEMACHINE.
C15_EventFields ==
    read # NoEntry =>
        /\ sent.Line.Raw = read.Line
        /\ sent.Line.Time = read.Timestamp
        /\ sent.Line.Src = lConfig.URL
        /\ sent.Line.Labels = lConfig.Labels
        /\ lastCall.op = "Configure" =>
               /\ sent.Line.Src = lastCall.doc.url
               /\ sent.Line.Labels = lastCall.doc.labels
        /\ lastCall.op = "ConfigureByDSN" =>
               /\ sent.Line.Src.scheme = "http"
               /\ sent.Line.Src.host = lastCall.dsn.host
               /\ sent.Line.Labels = lastCall.labels
        /\ sent.Line.Module = "loki"
        /\ sent.Line.Process = TRUE
        /\ sent.Process = TRUE
        /\ sent.Type = "LOG"
        /\ sent.ExpectMode = "TIMEMACHINE"

\* C15 witness: an event was sent for the second entry on a source
\* configured by a DSN with labels
C15_Witness ==
    /\ lastCall.op = "ConfigureByDSN" /\ lastCall.labels = SomeLabels
    /\ read.Line = "line b" /\ sent.Line.Raw = "line b"
    /\ sent.Line.Labels = SomeLabels

\* C16: Configure on a document of schema keys only returns "Cannot build
\* Loki url" when the document has no url (with or without a query), and
\* "unknown scheme : <scheme>" when the url's scheme is neither http nor
\* https; in both cases it returns an error.
C16_UrlValidated ==
    (lastCall.op = "Configure" /\ lastCall.doc.unknown = "") =>
        /\ lastCall.doc.url = NoUrl =>
               Mentions(ret, "Cannot build Loki url")
        /\ lastCall.doc.url.scheme \notin {"", "http", "https"} =>
               /\ Mentions(ret, "unknown scheme : ")
               /\ Mentions(ret, lastCall.doc.url.scheme)

\* C17: after a successful Configure or ConfigureByDSN the resolved
\* configuration has a non-empty query, an http or https URL, limit > 0,
\* wait_for_ready > 0 and mode tail or cat.
C17_ResolvedConfigValid ==
    Configured =>
        /\ lConfig.Query # ""
        /\ lConfig.URL.scheme \in {"http", "https"}
        /\ lConfig.Limit > 0
        /\ lConfig.WaitForReady > 0
        /\ lConfig.Mode \in {"tail", "cat"}

\* C18: ConfigureByDSN on a DSN that differs from a valid one by its
\* userinfo user:pass alone succeeds, the configuration and the client hold
\* that username and password, and a query_range request sent afterwards
\* carries Authorization: Basic base64(user:pass).
C18_DsnAuthRoundTrip ==
    (/\ lastCall.op = "ConfigureByDSN"
     /\ lastCall.dsn.user # "" /\ lastCall.dsn.pass # ""
     /\ [lastCall.dsn EXCEPT !.user = "", !.pass = ""] = BaseDsn) =>
        /\ ret = << >>
        /\ lConfig.Username = lastCall.dsn.user
        /\ lConfig.Password = lastCall.dsn.pass
        /\ lClient.config.Username = lastCall.dsn.user
        /\ lClient.config.Password = lastCall.dsn.pass
        /\ httpReq # NoRequest =>
               httpReq.header.Authorization =
                   << "Basic", lastCall.dsn.user, lastCall.dsn.pass >>

\* C19: a configuration call that returns an error leaves the stored
\* configuration and the client as they were before the call.
C19_FailedCallChangesNothing ==
    [][(calls' # calls /\ ret' # << >>) =>
           (lConfig' = lConfig /\ lClient' = lClient)]_vars

C22_TailResetsSince ==
    (lastCall.op = "Configure" /\ ret = << >>) =>
        /\ lastCall.doc.mode \in {"", "tail"} =>
               (lConfig.Since = 0 /\ lClient.config.Since = 0)
        /\ lastCall.doc.mode = "cat" =>
               /\ lConfig.Since = lastCall.doc.since
               /\ lClient.config.Since = lastCall.doc.since

\* C22 witness: a document with no mode and since: 5m was accepted
C22_Witness ==
    /\ lastCall.op = "Configure" /\ ret = << >>
    /\ lastCall.doc.mode = "" /\ lastCall.doc.since = 300
    /\ lConfig.Mode = "tail" /\ lClient.set /\ lClient.config.Since = 0

\* C23: after a successful ConfigureByDSN the mode is cat, the URL is
\* http://<host>, since is the parsed since parameter (0 when absent, 3
\* hours for 3h) and limit the parsed limit parameter (5000 when absent);
\* a since, limit, wait_for_ready or delay_for that does not parse makes
\* the call fail.
C23_DsnResolved ==
    lastCall.op = "ConfigureByDSN" =>
        /\ ret = << >> =>
              /\ lConfig.Mode = "cat"
              /\ lConfig.URL.scheme = "http"
              /\ lConfig.URL.host = lastCall.dsn.host
              /\ lConfig.URL.user = "" /\ lConfig.URL.path = << >>
              /\ lastCall.dsn.since = "" => lConfig.Since = 0
              /\ lastCall.dsn.since = "3h" => lConfig.Since = 10800
              /\ lastCall.dsn.limit = "" => lConfig.Limit = 5000
              /\ lastCall.dsn.limit = "100" => lConfig.Limit = 100
              /\ lastCall.dsn.limit = "-5" => lConfig.Limit = -5
              /\ lastCall.dsn.since \in {"", "3h"}
              /\ lastCall.dsn.limit \in {"", "100", "-5"}
        /\ ( \/ lastCall.dsn.since = "bad" \/ lastCall.dsn.limit = "x"
             \/ lastCall.dsn.wait_for_ready = "bad"
             \/ lastCall.dsn.delay_for = "bad" ) => ret # << >>

\* C23 witness: a DSN with since=3h and limit=100 was accepted
C23_Witness ==
    /\ lastCall.op = "ConfigureByDSN" /\ ret = << >>
    /\ lastCall.dsn.since = "3h" /\ lastCall.dsn.limit = "100"
    /\ lConfig.Since = 10800 /\ lConfig.Limit = 100

\* C24 (as stated): in both forms an absent wait_for_ready resolves to 10
\* seconds and a present one to its parsed duration, and the deadline of
\* the readiness probe of both acquisitions is the resolved value.
C24_WaitForReadyParsed ==
    ret = << >> =>
        /\ lastCall.op = "Configure" =>
              /\ lastCall.doc.wait_for_ready = "" => lConfig.WaitForReady = 10
              /\ lastCall.doc.wait_for_ready = "5s" => lConfig.WaitForReady = 5
              /\ lastCall.doc.wait_for_ready = "0s" => lConfig.WaitForReady = 0
              /\ lastCall.doc.wait_for_ready = "-1s" => lConfig.WaitForReady = -1
        /\ lastCall.op = "ConfigureByDSN" =>
              /\ lastCall.dsn.wait_for_ready = "" => lConfig.WaitForReady = 10
              /\ lastCall.dsn.wait_for_ready = "5s" => lConfig.WaitForReady = 5
              /\ lastCall.dsn.wait_for_ready = "0s" => lConfig.WaitForReady = 0
        /\ readyCtx.by \in Acquisitions =>
              (readyCtx.timed /\ readyCtx.timeout = lConfig.WaitForReady)

\* C24 (amended): in the structured form a wait_for_ready that is absent or
\* zero resolves to 10 seconds and any other to its parsed duration; in the
\* DSN form an absent one resolves to 10 seconds and a present one to its
\* parsed duration, zero included; the readiness probe of both acquisitions
\* runs under a deadline of the resolved value.
C24_WaitForReadyResolved ==
    ret = << >> =>
        /\ lastCall.op = "Configure" =>
              /\ lastCall.doc.wait_for_ready \in {"", "0s"} =>
                     lConfig.WaitForReady = 10
              /\ lastCall.doc.wait_for_ready = "5s" => lConfig.WaitForReady = 5
              /\ lastCall.doc.wait_for_ready = "-1s" => lConfig.WaitForReady = -1
        /\ lastCall.op = "ConfigureByDSN" =>
              /\ lastCall.dsn.wait_for_ready = "" => lConfig.WaitForReady = 10
              /\ lastCall.dsn.wait_for_ready = "5s" => lConfig.WaitForReady = 5
              /\ lastCall.dsn.wait_for_ready = "0s" => lConfig.WaitForReady = 0
        /\ readyCtx.by \in Acquisitions =>
              (readyCtx.timed /\ readyCtx.timeout = lConfig.WaitForReady)

\* C24 witness: the streaming acquisition probes readiness under a deadline
\* of 5 seconds after a document with wait_for_ready: 5s
C24_Witness ==
    /\ lastCall.op = "Configure" /\ ret = << >>
    /\ lastCall.doc.wait_for_ready = "5s"
    /\ readyCtx.by = "StreamingAcquisition" /\ readyCtx.timeout = 5

\* C25: after every successful configuration, structured or DSN, the
\* resolved prefix ends with "/": it is "/" when no prefix was given, and a
\* given prefix that does not end with "/" has "/" appended.
C25_PrefixEndsWithSlash ==
    (lastCall.op # "none" /\ ret = << >>) =>
        /\ Len(lConfig.Prefix) > 0
        /\ lConfig.Prefix[Len(lConfig.Prefix)] = "/"
        /\ (lastCall.op = "ConfigureByDSN" \/ lastCall.doc.prefix = << >>) =>
               lConfig.Prefix = << "/" >>
        /\ (lastCall.op = "Configure" /\ lastCall.doc.prefix = << "/", "p" >>) =>
               lConfig.Prefix = << "/", "p", "/" >>

\* the entries of the response a producer has read and not handed over yet
Held ==
    IF mode = "cat"
    THEN IF pPc = "send" THEN EntriesOf(pResp) ELSE << >>
    ELSE IF rPc = "send" THEN EntriesOf(rResp) ELSE << >>

\* one step of the acquisition, as C26 allows it
BackpressureStep ==
    /\ (pPc' = "inflight" /\ pPc # "inflight") => pPc = "select"
    /\ (pPc = "send" /\ pPc' # "send") =>
           (pPc' = "sent" /\ pending = << >> /\ pending' = EntriesOf(pResp))
    /\ (rPc' = "read" /\ rPc # "read") => rPc = "select"
    /\ (rPc = "send" /\ rPc' # "send") =>
           (rPc' = "select" /\ pending = << >> /\ pending' = EntriesOf(rResp))
    /\ pending' # pending =>
           \/ pending = << >>
           \/ consuming /\ pending' = Tail(pending)

\* C26: a producer (the paginator, the tail reader) that holds a response
\* does nothing but hand it to the driver: it sends no request and reads no
\* frame before; the driver takes a response only when every entry of the
\* one before was received by the consumer; so the entries read and not
\* delivered are never more than those of two responses (a response has at
\* most `limit` entries in cat mode and 2 in tail mode).
C26_Backpressure ==
    /\ [](Len(pending) + Len(Held) <= 2 * (IF mode = "cat" THEN limit ELSE 2))
    /\ [](Len(pending) <= (IF mode = "cat" THEN limit ELSE 2))
    /\ [][BackpressureStep]_vars

\* C26 witness: the paginator holds the next response while the driver is
\* still publishing the entries of the one before
C26_Witness ==
    /\ mode = "cat" /\ pPc = "send" /\ Len(pResp) > 0
    /\ dPc = "publish" /\ pending # << >>

\* C27: once the consumer has stopped receiving, a shutdown signal that
\* fires afterwards still makes the acquisition return: the one-shot loop
\* ends, and so does the streaming worker if one was started.
C27_ShutdownReleasesDriver ==
    []((~consuming /\ shutdownAt = "none") =>
          [](shutdownAt # "none" =>
                <>(\/ mode = "cat" /\ dPc = "done"
                   \/ mode = "tail" /\ dPc = "done" /\ wPc \in {"none", "done"})))

\* C28: a failed dial ends the streaming worker with the error "could not
\* start loki tail" (around the dial error); no reader was spawned and no
\* connection is open; the tomb is dying with a non-nil error from then on;
\* no event is or was published.
C28_DialFailure ==
    /\ []((mode = "tail" /\ wRet = "could not start loki tail") =>
             /\ wPc = "done"
             /\ rPc = "none" /\ rRet = "none" /\ connState = "none"
             /\ tReason \notin {"StillAlive", "nil"}
             /\ pending = << >>
             /\ \A i \in Ids : delivered[i] = 0)
    /\ [][(wPc = "dial" /\ wPc' = "done") =>
             (wRet' = "could not start loki tail" /\ rPc' = "none")]_vars

\* C28 witness: the dial failed and the tomb is dead, with the worker's
\* error as its reason
C28_Witness ==
    /\ mode = "tail" /\ wPc = "done" /\ wRet = "could not start loki tail"
    /\ rPc = "none"
    /\ tDead /\ tReason = "could not start loki tail"

\* C29: after a query_range answer of status 200 whose body is not JSON,
\* the response channel is never closed and the paginator, once it has
\* returned, has returned a non-nil error.
C29_BadJsonAborts ==
    badBody => (~cClosed /\ (pPc = "done" => pRet # "nil"))

\* the endpoints of Loki the client sends requests to
Endpoints == {"ready", "loki/api/v1/query_range", "loki/api/v1/tail"}

\* C30: every request of the client built by a successful configuration
\* goes to base URL + resolved prefix + endpoint (for a base URL with a
\* host and no path of its own), and after a structured configuration with a username
\* or a password it carries Basic authentication with them.
C30_ClientUsesResolvedSettings ==
    (ret = << >> /\ httpReq # NoRequest /\ lConfig.URL.host # "") =>
        /\ httpReq.uri.host = lConfig.URL.host
        /\ lConfig.URL.path = << >> =>
              \E ep \in Endpoints :
                  httpReq.uri.path =
                      (IF lConfig.Prefix = << >> THEN << "/" >>
                       ELSE lConfig.Prefix) \o << ep >>
        /\ (/\ lastCall.op = "Configure"
            /\ (lConfig.Username # "" \/ lConfig.Password # "")) =>
              httpReq.header.Authorization =
                  << "Basic", lConfig.Username, lConfig.Password >>

\* the endpoint a request went to, and the params its caller gives to
\* getURLFor (time.Now() is 0)
EndpointOf(req) == req.uri.path[Len(req.uri.path)]
GivenParams(ep) ==
    IF ep = "loki/api/v1/query_range"
    THEN [query |-> lClient.config.Query, start |-> 0 - lClient.config.Since,
          end |-> 0, limit |-> lClient.config.Limit, direction |-> "forward"]
    ELSE IF ep = "loki/api/v1/tail"
    THEN [limit |-> lClient.config.Limit, start |-> 0 - lClient.config.Since,
          query |-> lClient.config.Query]
    ELSE NoParams

\* C31: the URL of a request to loki/api/v1/tail has scheme ws for a base
\* URL of scheme http and wss for one of scheme https; the URL of a request
\* to another endpoint has the scheme of the base URL; in both, every given
\* parameter has the given value, whether or not the base URL has a
\* parameter of that name, and the other parameters of the base URL are
\* kept.
C31_SchemeAndParams ==
    (ret = << >> /\ httpReq # NoRequest) =>
        LET ep == EndpointOf(httpReq)
            base == lClient.config.LokiURL
            given == GivenParams(ep)
        IN /\ ep \in Endpoints
           /\ ep = "loki/api/v1/tail" =>
                 /\ base.scheme = "http" => httpReq.uri.scheme = "ws"
                 /\ base.scheme = "https" => httpReq.uri.scheme = "wss"
           /\ ep # "loki/api/v1/tail" => httpReq.uri.scheme = base.scheme
           /\ DOMAIN httpReq.uri.params = DOMAIN base.query \cup DOMAIN given
           /\ \A k \in DOMAIN given : httpReq.uri.params[k] = given[k]
           /\ \A k \in DOMAIN base.query \ DOMAIN given :
                 httpReq.uri.params[k] = base.query[k]

\* C31 witness: a tail request on the base URL
\* http://localhost:3100?limit=7&foo=bar goes to a ws URL with the client's
\* limit and with foo=bar
C31_Witness ==
    /\ ret = << >> /\ httpReq # NoRequest
    /\ EndpointOf(httpReq) = "loki/api/v1/tail"
    /\ lClient.config.LokiURL = QueryUrl
    /\ httpReq.uri.scheme = "ws"
    /\ httpReq.uri.params.limit = 100 /\ httpReq.uri.params.foo = "bar"

\* the producer of the response channel (the paginator in cat mode, the
\* tail reader in tail mode) has returned
ProducerDone == IF mode = "cat" THEN pPc = "done" ELSE rPc = "done"

\* C32: once a response channel is closed its producer has returned, so it
\* neither sends on the channel nor closes it again; the step that closes
\* the channel is the producer's last, and a closed channel stays closed.
C32_NoSendAfterClose ==
    /\ [](cClosed => ProducerDone)
    /\ [][/\ cClosed => (cClosed' /\ UNCHANGED << pPc, rPc, pResp, rResp >>)
          /\ (~cClosed /\ cClosed') =>
                (IF mode = "cat" THEN pPc = "sent" /\ pPc' = "done"
                 ELSE rPc = "read" /\ rPc' = "done")]_vars

\* C32 witness: the tail reader closed its channel on a read error while
\* the tomb was dying and the worker had not returned
C32_Witness ==
    /\ mode = "tail" /\ cClosed /\ rPc = "done"
    /\ shutdownAt = "tailing" /\ wPc # "done"

\* C33: the uri of the paginator always has the query, end, limit and
\* direction of the first request; a step that changes it changes `start`
\* alone, and never to a smaller value (Loki answering with entries in
\* timestamp order, none earlier than `start`).
C33_OnlyStartChanges ==
    /\ [](/\ DOMAIN pUri = {"query", "start", "end", "limit", "direction"}
          /\ pUri.query = TheQuery /\ pUri.end = MaxTs + 1
          /\ pUri.limit = limit /\ pUri.direction = "forward"
          /\ pUri.start = pStart)
    /\ [][pUri' # pUri =>
             /\ \A k \in {"query", "end", "limit", "direction"} :
                    pUri'[k] = pUri[k]
             /\ pUri'.start > pUri.start
             /\ pPc = "sent" /\ pPc' = "select"]_vars

\* C33 witness: a second request is in flight, with a later start than the
\* first and the same limit
C33_Witness ==
    /\ mode = "cat" /\ pPc = "inflight" /\ pPublished = 1
    /\ limit = 1 /\ pUri.limit = 1 /\ pUri.start = 1

====
